---- MODULE Spec2Model ----
(***************************************************************************)
(* Model of golem/ethereum/node.py: the NodeProcess supervisor of the      *)
(* external geth client (construction, start, stop, exit hooks).           *)
(***************************************************************************)
EXTENDS Integers, Sequences, FiniteSets, TLC

\* ---------------------------------------------------------------- bounds
\* Ports the allocator and the caller may name: 1..MaxPort.
MaxPort == 2
\* Children one supervisor may launch in a run.
MaxLaunches == 2

\* Python's None for a port or a process handle; both are tested by truth
\* value in the code, where None and 0 behave alike.
None == 0

Ports == 1..MaxPort
ChildIds == 1..MaxLaunches

\* ------------------------------------------------------- version strings
\* A dotted version string is a sequence of groups of decimal digits:
\* '1.5.999' is << <<1>>, <<5>>, <<9,9,9>> >>.
MIN_GETH_VERSION == << <<1>>, <<4>>, <<5>> >>
MAX_GETH_VERSION == << <<1>>, <<5>>, <<9, 9, 9>> >>

\* int() of a string of decimal digits.
RECURSIVE DigitsToInt(_)
DigitsToInt(ds) ==
    IF ds = <<>> THEN 0
    ELSE 10 * DigitsToInt(SubSeq(ds, 1, Len(ds) - 1)) + ds[Len(ds)]

\* distutils StrictVersion(s).version: the triple of ints, patch 0 when the
\* string has two groups only.
StrictVersion(s) ==
    << DigitsToInt(s[1]), DigitsToInt(s[2]),
       IF Len(s) >= 3 THEN DigitsToInt(s[3]) ELSE 0 >>

\* cmp() of two int triples, as StrictVersion.__cmp__ computes it.
VersionCmp(a, b) ==
    IF a[1] # b[1] THEN (IF a[1] < b[1] THEN -1 ELSE 1)
    ELSE IF a[2] # b[2] THEN (IF a[2] < b[2] THEN -1 ELSE 1)
    ELSE IF a[3] # b[3] THEN (IF a[3] < b[3] THEN -1 ELSE 1)
    ELSE 0

\* The output of `geth version`: whether it holds the text "Version: " and
\* the dotted digit groups that follow it.
\* re.search("Version: (\d+\.\d+\.\d+)", output): the first three groups, or
\* <<>> for no match.
ReSearchVersion(output) ==
    IF output.prefix /\ Len(output.groups) >= 3
    THEN SubSeq(output.groups, 1, 3)
    ELSE <<>>

\* Mutant: the upper bound taken as exclusive.
VersionRejectedExclusiveMax(ver) ==
    \/ VersionCmp(ver, StrictVersion(MIN_GETH_VERSION)) < 0
    \/ VersionCmp(ver, StrictVersion(MAX_GETH_VERSION)) >= 0

\* ver < self.MIN_GETH_VERSION or ver > self.MAX_GETH_VERSION
VersionRejected(ver) ==
    \/ VersionCmp(ver, StrictVersion(MIN_GETH_VERSION)) < 0
    \/ VersionCmp(ver, StrictVersion(MAX_GETH_VERSION)) > 0

\* ------------------------------------------------------------ construction
\* The data directory: what is at its path, the content of its
\* static-nodes.json (<<>> when there is no such file) and the chain state
\* the client holds in it.
NoFile == <<>>

GateErrors == {"BinaryNotFound", "VersionParse", "IncompatibleVersion"}

\* save(nodes, nodes_file, False) of golem.core.compress: the content of
\* the file after nodes is serialised into it, whatever it held before.
save(nodes, content) == nodes

\* Mutant: the genesis init is run on first use only, not on a directory
\* that already holds the golem chain state.
InitDataDirInitOnce(f, nodes, rc) ==
    LET made == IF f.dir = "absent" THEN [f EXCEPT !.dir = "dir"] ELSE f
        log1 == IF f.dir = "absent" THEN <<"makedirs">> ELSE <<>>
    IN  IF made.dir # "dir"
        THEN [err |-> "NotADirectory", fs |-> made, log |-> log1]
        ELSE
          LET saved == IF nodes # <<>>
                       THEN [made EXCEPT !.nodesFile = save(nodes, @)]
                       ELSE made
              log2  == IF nodes # <<>> THEN log1 \o <<"save">> ELSE log1
          IN  IF f.genesis = "golem"
              THEN [err |-> "none", fs |-> saved, log |-> log2]
              ELSE IF rc # 0
              THEN [err |-> "GenesisInitFailed", fs |-> saved,
                    log |-> log2 \o <<"init">>]
              ELSE [err |-> "none",
                    fs  |-> [saved EXCEPT !.genesis = "golem"],
                    log |-> log2 \o <<"init">>]

\* Mutant: the static-node file is written after the genesis init.
InitDataDirSavesLast(f, nodes, rc) ==
    LET made == IF f.dir = "absent" THEN [f EXCEPT !.dir = "dir"] ELSE f
        log1 == IF f.dir = "absent" THEN <<"makedirs">> ELSE <<>>
    IN  IF made.dir # "dir"
        THEN [err |-> "NotADirectory", fs |-> made, log |-> log1]
        ELSE IF rc # 0
        THEN [err |-> "GenesisInitFailed", fs |-> made,
              log |-> log1 \o <<"init">>]
        ELSE [err |-> "none",
              fs  |-> [made EXCEPT !.genesis = "golem",
                                   !.nodesFile = IF nodes # <<>>
                                                 THEN save(nodes, @) ELSE @],
              log |-> log1 \o <<"init">>
                      \o (IF nodes # <<>> THEN <<"save">> ELSE <<>>)]

\* The part of __init__ after the version gate: directory, static nodes,
\* genesis init.  rc is the exit status of the init subcommand.
InitDataDir(f, nodes, rc) ==
    LET made   == IF f.dir = "absent" THEN [f EXCEPT !.dir = "dir"] ELSE f
        log1   == IF f.dir = "absent" THEN <<"makedirs">> ELSE <<>>
    IN  IF made.dir # "dir"
        THEN [err |-> "NotADirectory", fs |-> made, log |-> log1]
        ELSE
          LET saved == IF nodes # <<>>
                       THEN [made EXCEPT !.nodesFile = save(nodes, @)]
                       ELSE made
              log2  == IF nodes # <<>> THEN log1 \o <<"save">> ELSE log1
              log3  == log2 \o <<"init">>
          IN  IF rc # 0
              THEN [err |-> "GenesisInitFailed", fs |-> saved, log |-> log3]
              ELSE [err |-> "none",
                    fs  |-> [saved EXCEPT !.genesis = "golem"],
                    log |-> log3]

\* Mutant: the data directory is prepared before the binary is checked.
NodeProcessInitDirFirst(bin, f, nodes, rc) ==
    LET d == InitDataDir(f, nodes, rc)
        m == ReSearchVersion(bin.output)
    IN  IF ~bin.found
        THEN [d EXCEPT !.err = "BinaryNotFound"]
        ELSE IF m = <<>>
        THEN [d EXCEPT !.err = "VersionParse"]
        ELSE IF VersionRejected(StrictVersion(m))
        THEN [d EXCEPT !.err = "IncompatibleVersion"]
        ELSE d

\* NodeProcess.__init__: the error it raises ("none" when it returns), the
\* data directory it leaves and the effects on it in order.
NodeProcessInit(bin, f, nodes, rc) ==
    LET m == ReSearchVersion(bin.output)
    IN  IF ~bin.found
        THEN [err |-> "BinaryNotFound", fs |-> f, log |-> <<>>]
        ELSE IF m = <<>>
        THEN [err |-> "VersionParse", fs |-> f, log |-> <<>>]
        ELSE IF VersionRejected(StrictVersion(m))
        THEN [err |-> "IncompatibleVersion", fs |-> f, log |-> <<>>]
        ELSE InitDataDir(f, nodes, rc)

\* ------------------------------------------------------------------ state
VARIABLES
    geth,       \* the binary on the host: [found, output of `geth version`]
    fs,         \* the data directory: [dir, nodesFile, genesis]
    sup,        \* "none": nothing constructed; "ok"; "failed": __init__ raised
    err,        \* what the last __init__ raised ("none" when it returned)
    ctorLog,    \* effects of the last __init__ on the data directory, in order
    port,       \* self.port
    rpcport,    \* self.rpcport
    ps,         \* self.__ps: None or the child it refers to
    pubkey,     \* self.pubkey (<<>> while the attribute is not set)
    args,       \* start's local args while start runs (<<>> otherwise)
    runRpc,     \* whether the start that launched the last child asked for RPC
    children,   \* the children launched: [alive, laddr, terms]
    hooks,      \* atexit hooks registered and not yet run
    exiting,    \* the interpreter is running its exit hooks
    pc,         \* "idle", "poll" (start's loop), "wait" (stop's wait), "done"
    call,       \* the call in progress or last completed
    stopsInRow, \* stop() calls completed since the last other call (up to 2)
    thr         \* the calls of two threads sharing the supervisor

vars == << geth, fs, sup, err, ctorLog, port, rpcport, ps, pubkey,
           args, runRpc, children, hooks, exiting, pc, call, stopsInRow,
           thr >>

fields   == << port, rpcport, ps, pubkey >>
hostVars == << geth, fs, sup, err, ctorLog >>

\* A call: which operation, whether RPC was asked for, how it ended
\* ("running" while it has not), whether start launched a child, whether
\* stop found a handle, the sleeps of start's loop (wait_time in periods: 0,
\* 1, or 2 for two and more), whether the loop inspected the child's
\* connections, what the last inspection saw, and whether stop caught
\* NoSuchProcess.
NoCall == [op |-> "none", rpc |-> FALSE, result |-> "none", launched |-> FALSE,
           acted |-> FALSE, waits |-> 0, inspected |-> FALSE, saw |-> FALSE,
           caught |-> FALSE]

\* Two threads that share the supervisor, each making one call.
Threads == {1, 2}

\* The call of a thread: where it is in start or stop ("ready" before the
\* call, "done" after it), the operation, whether RPC was asked for, whether
\* the handle was held when the call tested it, the child Popen returned
\* to it, whether it launched a child, whether stop found a handle, and how
\* the call ended.
NoThread == [pc |-> "ready", op |-> "none", rpc |-> FALSE, held |-> FALSE,
             handle |-> None, launched |-> FALSE, acted |-> FALSE,
             result |-> "none"]

\* ---------------------------------------------------------- input domains
Digits(n) == IF n = 999 THEN <<9, 9, 9>> ELSE IF n = 998 THEN <<9, 9, 8>>
             ELSE IF n = 1000 THEN <<1, 0, 0, 0>> ELSE <<n>>

VersionOutputs ==
    { [prefix |-> TRUE, groups |-> << Digits(a), Digits(b), Digits(c) >>] :
        a \in {0, 1, 2}, b \in {3, 4, 5, 6}, c \in {0, 4, 5, 6, 998, 999, 1000} }
    \cup { [prefix |-> TRUE,  groups |-> << <<1>>, <<0, 5>>, <<0, 0>> >>],
           [prefix |-> TRUE,  groups |-> << <<1>>, <<5>>, <<0>>, <<1>> >>],
           [prefix |-> TRUE,  groups |-> << <<1>>, <<5>> >>],
           [prefix |-> FALSE, groups |-> << <<1>>, <<5>>, <<0>> >>],
           [prefix |-> FALSE, groups |-> <<>>] }

Binaries ==
    { [found |-> TRUE, output |-> o] : o \in VersionOutputs }
    \cup { [found |-> FALSE, output |-> [prefix |-> FALSE, groups |-> <<>>]] }

\* The binaries the lifecycle specification starts from: one missing, one
\* whose output does not parse, one too old, one too new, one accepted.
V(a, b, c) == [found |-> TRUE,
               output |-> [prefix |-> TRUE,
                           groups |-> << Digits(a), Digits(b), Digits(c) >>]]
LifecycleBinaries ==
    { [found |-> FALSE, output |-> [prefix |-> FALSE, groups |-> <<>>]],
      [found |-> TRUE,  output |-> [prefix |-> FALSE, groups |-> <<>>]],
      V(1, 4, 4), V(1, 6, 0), V(1, 5, 0) }

NodeSets == { <<>>, <<"enodeA", "enodeB">> }
OldNodes == <<"enodeOld">>

\* The directories the lifecycle specification starts from.
LifecycleDirs ==
    { [dir |-> "absent", nodesFile |-> NoFile, genesis |-> "none"],
      [dir |-> "file",   nodesFile |-> NoFile, genesis |-> "none"],
      [dir |-> "dir",    nodesFile |-> OldNodes, genesis |-> "foreign"] }

DataDirs ==
    { [dir |-> "absent", nodesFile |-> NoFile, genesis |-> "none"],
      [dir |-> "file",   nodesFile |-> NoFile, genesis |-> "none"] }
    \cup { [dir |-> "dir", nodesFile |-> n, genesis |-> g] :
             n \in {NoFile, OldNodes}, g \in {"none", "foreign", "golem"} }

\* What callers pass for (mining, nodekey): mining or not, no key or the
\* faucet's key (FullNode passes mining with the faucet's key).
FaucetKey == <<10, 255>>
StartOptions == { << m, k >> : m \in BOOLEAN, k \in { <<>>, FaucetKey } }

\* The explicit port a caller may pass.
ExplicitPorts == {MaxPort}

\* ------------------------------------------------------------------- init
InitFields ==
    /\ sup = "none" /\ err = "none" /\ ctorLog = <<>>
    /\ port = None /\ rpcport = None /\ ps = None /\ pubkey = <<>>
    /\ args = <<>> /\ runRpc = FALSE
    /\ children = <<>> /\ hooks = 0 /\ exiting = FALSE
    /\ pc = "idle" /\ call = NoCall /\ stopsInRow = 0
    /\ thr = [t \in Threads |-> NoThread]

Init ==
    /\ geth \in LifecycleBinaries
    /\ fs \in LifecycleDirs
    /\ InitFields

\* ------------------------------------------------------------ __init__
\* A supervisor may be constructed while none is in use: at first, after a
\* failed construction, or in place of one that never launched anything.
Construct(nodes, rc) ==
    /\ pc = "idle" /\ ~exiting
    /\ sup \in {"none", "failed"} \/ (ps = None /\ children = <<>>)
    /\ LET r == NodeProcessInit(geth, fs, nodes, rc)
       IN  /\ fs' = r.fs
           /\ err' = r.err
           /\ ctorLog' = r.log
           /\ sup' = IF r.err = "none" THEN "ok" ELSE "failed"
    /\ port' = None /\ rpcport' = None /\ ps' = None /\ pubkey' = <<>>
    /\ args' = <<>> /\ runRpc' = FALSE
    /\ call' = [NoCall EXCEPT !.op = "init",
                              !.result = IF err' = "none" THEN "returned"
                                         ELSE "raised"]
    /\ stopsInRow' = 0
    /\ UNCHANGED << geth, thr, children, hooks, exiting, pc >>

\* --------------------------------------------------------------- start
\* if self.__ps: return
StartSkipsNever(h) == FALSE
StartSkips(h) == h # None

\* Mutant: is_running() also asks whether the child is still alive.
is_running_and_alive == ps # None /\ children[ps].alive

\* is_running()
is_running == ps # None

HexDigit(n) ==
    << "0", "1", "2", "3", "4", "5", "6", "7",
       "8", "9", "a", "b", "c", "d", "e", "f" >>[n + 1]

\* str.encode('hex') of a byte string.
RECURSIVE HexEncode(_)
HexEncode(bytes) ==
    IF bytes = <<>> THEN ""
    ELSE HexDigit(bytes[1] \div 16) \o HexDigit(bytes[1] % 16)
         \o HexEncode(Tail(bytes))

\* privtopub of the key library: the public key of a private key, a value
\* determined by the key and distinct from it.
privtopub(key) == <<4>> \o key

\* Mutant: the mining flags are put before the node-key flag.
LaunchArgsMiningFirst(pt, rpc, rp, nodekey, mining) ==
    << "geth", "--datadir", "datadir", "--networkid", "9",
       "--port", ToString(pt), "--nodiscover", "--ipcdisable",
       "--gasprice", "0", "--verbosity", "3" >>
    \o (IF rpc THEN << "--rpc", "--rpcport", ToString(rp) >> ELSE <<>>)
    \o (IF mining
        THEN << "--etherbase", "FaucetAddrHex", "js",
                "mine_pending_transactions.js" >>
        ELSE <<>>)
    \o (IF nodekey # <<>> THEN << "--nodekeyhex", HexEncode(nodekey) >>
        ELSE <<>>)

\* The argument vector start composes.
LaunchArgs(pt, rpc, rp, nodekey, mining) ==
    << "geth", "--datadir", "datadir", "--networkid", "9",
       "--port", ToString(pt), "--nodiscover", "--ipcdisable",
       "--gasprice", "0", "--verbosity", "3" >>
    \o (IF rpc THEN << "--rpc", "--rpcport", ToString(rp) >> ELSE <<>>)
    \o (IF nodekey # <<>> THEN << "--nodekeyhex", HexEncode(nodekey) >>
        ELSE <<>>)
    \o (IF mining
        THEN << "--etherbase", "FaucetAddrHex", "js",
                "mine_pending_transactions.js" >>
        ELSE <<>>)

\* atexit.register(lambda: self.stop())
RegisterHookForgotten == hooks' = hooks
RegisterHook == hooks' = hooks + 1

\* start(rpc, mining, nodekey, port) up to the first sleep of its loop.
\* p1 and p2 are what find_free_net_port returns when it is called; ok is
\* whether psutil.Popen returns (it raises otherwise).
Start(rpc, mining, nodekey, portArg, p1, p2, ok) ==
    /\ sup = "ok" /\ pc = "idle" /\ ~exiting
    /\ stopsInRow' = 0
    /\ IF StartSkips(ps)
       THEN /\ call' = [NoCall EXCEPT !.op = "start", !.rpc = rpc,
                                      !.result = "returned"]
            /\ UNCHANGED << fields, args, runRpc, children, hooks, pc >>
       ELSE /\ ok => Len(children) < MaxLaunches
            /\ port' = IF portArg # None THEN portArg ELSE p1
            /\ rpcport' = IF rpc THEN p2 ELSE rpcport
            /\ pubkey' = IF nodekey # <<>> THEN privtopub(nodekey) ELSE pubkey
            /\ IF ok
               THEN /\ args' = LaunchArgs(port', rpc, rpcport', nodekey,
                                          mining)
                    /\ runRpc' = rpc
                    /\ children' = Append(children,
                          [alive |-> TRUE, laddr |-> {}, terms |-> 0])
                    /\ ps' = Len(children) + 1
                    /\ RegisterHook
                    /\ pc' = "poll"
                    /\ call' = [NoCall EXCEPT !.op = "start", !.rpc = rpc,
                                   !.result = "running", !.launched = TRUE]
               ELSE /\ call' = [NoCall EXCEPT !.op = "start", !.rpc = rpc,
                                   !.result = "raised"]
                    /\ args' = <<>>
                    /\ UNCHANGED << runRpc, children, ps, hooks, pc >>
    /\ UNCHANGED << hostVars, thr, exiting >>

\* Counting up to "two and more".
Bump(n) == IF n < 2 THEN n + 1 ELSE 2

\* self.rpcport in set(c.laddr[1] for c in self.__ps.connections('tcp'))
PollReadyAnyway(rp, laddr) == TRUE
PollReadyNever(rp, laddr) == FALSE
PollReady(rp, laddr) == rp \in laddr

\* One iteration of start's loop: sleep, count, test.  A child that has
\* exited makes connections() raise NoSuchProcess, or, while it is still a
\* zombie, report no connection.
Poll ==
    /\ pc = "poll"
    /\ IF ~(rpcport # None)
       THEN /\ pc' = "idle"
            /\ call' = [call EXCEPT !.waits = Bump(@), !.result = "returned"]
       ELSE \E raises \in (IF children[ps].alive THEN {FALSE}
                           ELSE {FALSE, TRUE}) :
              IF raises
              THEN /\ pc' = "idle"
                   /\ call' = [call EXCEPT !.waits = Bump(@),
                                           !.result = "raised"]
              ELSE LET seen == PollReady(rpcport, children[ps].laddr)
                   IN  /\ pc' = IF seen THEN "idle" ELSE "poll"
                       /\ call' = [call EXCEPT
                              !.waits = Bump(@), !.inspected = TRUE,
                              !.saw = rpcport \in children[ps].laddr,
                              !.result = IF seen THEN "returned"
                                         ELSE "running"]
    /\ args' = IF pc' = "idle" THEN <<>> ELSE args
    /\ UNCHANGED << hostVars, thr, fields, runRpc, children, hooks, exiting,
                    stopsInRow >>

\* An exception delivered to the caller while it sleeps in start's loop
\* (KeyboardInterrupt, SystemExit from a signal handler): start is left.
Interrupt ==
    /\ pc = "poll"
    /\ pc' = "idle"
    /\ call' = [call EXCEPT !.result = "interrupted"]
    /\ args' = <<>>
    /\ UNCHANGED << hostVars, thr, fields, runRpc, children, hooks, exiting,
                    stopsInRow >>

\* ---------------------------------------------------------------- stop
\* if self.__ps:
StopActs(h) == h # None

\* self.__ps = None; self.rpcport = None
StopFinishKeepsHandle == ps' = ps /\ rpcport' = None
StopFinishKeepsRpcPort == ps' = None /\ rpcport' = rpcport
StopFinish == ps' = None /\ rpcport' = None

\* except psutil.NoSuchProcess: log.warn(...), then the common tail.
StopOnGoneRaises(op) ==
    /\ pc' = "idle"
    /\ call' = [NoCall EXCEPT !.op = op, !.acted = TRUE, !.result = "raised"]
    /\ UNCHANGED << ps, rpcport >>
StopOnGone(op) ==
    /\ StopFinish
    /\ pc' = "idle"
    /\ call' = [NoCall EXCEPT !.op = op, !.acted = TRUE, !.caught = TRUE,
                              !.result = "returned"]

\* stop() up to self.__ps.wait().  terminate() on a child that has exited
\* signals its zombie, or raises NoSuchProcess when the child is gone.
StopBody(op) ==
    IF ~StopActs(ps)
    THEN /\ call' = [NoCall EXCEPT !.op = op, !.result = "returned"]
         /\ stopsInRow' = Bump(stopsInRow)
         /\ UNCHANGED << ps, rpcport, children, pc >>
    ELSE \E gone \in (IF children[ps].alive THEN {FALSE} ELSE {FALSE, TRUE}) :
           /\ children' = [children EXCEPT ![ps].terms = @ + 1]
           /\ IF gone
              THEN /\ StopOnGone(op)
                   /\ stopsInRow' = Bump(stopsInRow)
              ELSE /\ pc' = "wait"
                   /\ call' = [NoCall EXCEPT !.op = op, !.acted = TRUE,
                                             !.result = "running"]
                   /\ UNCHANGED << ps, rpcport, stopsInRow >>

\* stop() called by the owner of the supervisor.
Stop ==
    /\ sup = "ok" /\ pc = "idle" /\ ~exiting
    /\ StopBody("stop")
    /\ UNCHANGED << hostVars, thr, port, pubkey, args, runRpc, hooks, exiting >>

\* Mutant: stop does not wait for the child to exit.
StopWaitWithoutExit ==
    /\ pc = "wait"
    /\ StopFinish
    /\ pc' = "idle"
    /\ call' = [call EXCEPT !.result = "returned"]
    /\ stopsInRow' = Bump(stopsInRow)
    /\ UNCHANGED << hostVars, thr, port, pubkey, args, runRpc, children, hooks,
                    exiting >>

\* self.__ps.wait() returns once the child has exited (or raises
\* NoSuchProcess when it is gone), and stop clears the handle.
StopWait ==
    /\ pc = "wait" /\ ~children[ps].alive
    /\ \E gone \in BOOLEAN :
         IF gone
         THEN StopOnGone(call.op)
         ELSE /\ StopFinish
              /\ pc' = "idle"
              /\ call' = [call EXCEPT !.result = "returned"]
    /\ stopsInRow' = Bump(stopsInRow)
    /\ UNCHANGED << hostVars, thr, port, pubkey, args, runRpc, children, hooks,
                    exiting >>

\* ----------------------------------------------------------- the children
\* A child exits: on the termination signal, or at any time on its own.
ChildExit(c) ==
    /\ c \in DOMAIN children /\ children[c].alive
    /\ children' = [children EXCEPT ![c].alive = FALSE, ![c].laddr = {}]
    /\ UNCHANGED << hostVars, thr, fields, args, runRpc, hooks, exiting, pc, call,
                    stopsInRow >>

\* A child opens a TCP socket bound to local port p.
ChildOpen(c, p) ==
    /\ c \in DOMAIN children /\ children[c].alive
    /\ p \notin children[c].laddr
    /\ children' = [children EXCEPT ![c].laddr = @ \cup {p}]
    /\ UNCHANGED << hostVars, thr, fields, args, runRpc, hooks, exiting, pc, call,
                    stopsInRow >>

\* A child closes its socket on local port p.
ChildClose(c, p) ==
    /\ c \in DOMAIN children /\ children[c].alive
    /\ p \in children[c].laddr
    /\ children' = [children EXCEPT ![c].laddr = @ \ {p}]
    /\ UNCHANGED << hostVars, thr, fields, args, runRpc, hooks, exiting, pc, call,
                    stopsInRow >>

\* ------------------------------------------------------ interpreter exit
\* The interpreter starts to exit: no further call by the owner.
Exit ==
    /\ pc = "idle" /\ ~exiting
    /\ exiting' = TRUE
    /\ UNCHANGED << hostVars, thr, fields, args, runRpc, children, hooks, pc, call,
                    stopsInRow >>

\* atexit runs the next registered hook: lambda: self.stop()
RunHook ==
    /\ exiting /\ pc = "idle" /\ hooks > 0
    /\ hooks' = hooks - 1
    /\ StopBody("hook")
    /\ UNCHANGED << hostVars, thr, port, pubkey, args, runRpc, exiting >>

\* Every hook has run.
Finish ==
    /\ exiting /\ pc = "idle" /\ hooks = 0
    /\ pc' = "done"
    /\ UNCHANGED << hostVars, thr, fields, args, runRpc, children, hooks, exiting,
                    call,
                    stopsInRow >>

\* ---------------------------------------------------------- specification
DoConstruct == \E nodes \in NodeSets, rc \in {0, 1} : Construct(nodes, rc)
DoStart ==
    \E rpc \in BOOLEAN, opt \in StartOptions,
       portArg \in {None} \cup ExplicitPorts, ok \in BOOLEAN :
      \E p1 \in (IF portArg = None THEN Ports ELSE {1}),
         p2 \in (IF rpc THEN Ports ELSE {1}) :
        Start(rpc, opt[1], opt[2], portArg, p1, p2, ok)
DoChildExit == \E c \in ChildIds : ChildExit(c)
DoChildOpen == \E c \in ChildIds, p \in Ports : ChildOpen(c, p)
DoChildClose == \E c \in ChildIds, p \in Ports : ChildClose(c, p)

Next ==
    \/ DoConstruct
    \/ DoStart
    \/ Poll
    \/ Interrupt
    \/ Stop
    \/ StopWait
    \/ DoChildExit
    \/ DoChildOpen
    \/ DoChildClose
    \/ Exit
    \/ RunHook
    \/ Finish

Spec == Init /\ [][Next]_vars

\* The loop of start keeps running: each sleep ends and the test follows.
SpecLive == Spec /\ WF_vars(Poll)

\* ------------------------------------------------------- two threads
\* The state of the single caller of the lifecycle specification.
callerVars == << args, exiting, pc, call, stopsInRow >>

\* A supervisor is constructed before either thread has made its call.
ThreadConstruct ==
    /\ \A t \in Threads : thr[t].pc = "ready"
    /\ DoConstruct

\* start, the test `if self.__ps: return`.
ThreadStartCheck(t, rpc) ==
    /\ sup = "ok" /\ thr[t].pc = "ready"
    /\ thr' = [thr EXCEPT ![t] =
                 [@ EXCEPT !.op = "start", !.rpc = rpc, !.held = (ps # None),
                           !.pc = IF StartSkips(ps) THEN "done" ELSE "checked",
                           !.result = IF StartSkips(ps) THEN "returned"
                                      ELSE "running"]]
    /\ UNCHANGED << hostVars, callerVars, fields, runRpc, children, hooks >>

\* start from the port allocation to the return of psutil.Popen (or to the
\* exception it raises): the fields are written, the child exists, and the
\* handle is not stored yet.
ThreadStartLaunch(t, p1, p2, ok) ==
    /\ thr[t].pc = "checked"
    /\ ok => Len(children) < MaxLaunches
    /\ port' = p1
    /\ rpcport' = IF thr[t].rpc THEN p2 ELSE rpcport
    /\ IF ok
       THEN /\ children' = Append(children,
                              [alive |-> TRUE, laddr |-> {}, terms |-> 0])
            /\ runRpc' = thr[t].rpc
            /\ thr' = [thr EXCEPT ![t] =
                         [@ EXCEPT !.pc = "spawned", !.launched = TRUE,
                                   !.handle = Len(children) + 1]]
       ELSE /\ thr' = [thr EXCEPT ![t] =
                         [@ EXCEPT !.pc = "done", !.result = "raised"]]
            /\ UNCHANGED << children, runRpc >>
    /\ UNCHANGED << hostVars, callerVars, ps, pubkey, hooks >>

\* start, the assignment self.__ps = (what Popen returned), and
\* atexit.register.
ThreadStartStore(t) ==
    /\ thr[t].pc = "spawned"
    /\ ps' = thr[t].handle
    /\ RegisterHook
    /\ thr' = [thr EXCEPT ![t].pc = "poll"]
    /\ UNCHANGED << hostVars, callerVars, port, rpcport, pubkey, runRpc,
                    children >>

\* One iteration of start's loop, reading self.rpcport and self.__ps as
\* they are now: None has no connections() (AttributeError).
ThreadStartPoll(t) ==
    /\ thr[t].pc = "poll"
    /\ IF ~(rpcport # None)
       THEN thr' = [thr EXCEPT ![t] =
                      [@ EXCEPT !.pc = "done", !.result = "returned"]]
       ELSE IF ps = None
       THEN thr' = [thr EXCEPT ![t] =
                      [@ EXCEPT !.pc = "done", !.result = "raised"]]
       ELSE \E raises \in (IF children[ps].alive THEN {FALSE}
                           ELSE {FALSE, TRUE}) :
              IF raises
              THEN thr' = [thr EXCEPT ![t] =
                             [@ EXCEPT !.pc = "done", !.result = "raised"]]
              ELSE /\ PollReady(rpcport, children[ps].laddr)
                   /\ thr' = [thr EXCEPT ![t] =
                                [@ EXCEPT !.pc = "done",
                                          !.result = "returned"]]
    /\ UNCHANGED << hostVars, callerVars, fields, runRpc, children, hooks >>

\* stop, the test `if self.__ps:`.
ThreadStopCheck(t) ==
    /\ sup = "ok" /\ thr[t].pc = "ready"
    /\ thr' = [thr EXCEPT ![t] =
                 [@ EXCEPT !.op = "stop", !.held = (ps # None),
                           !.acted = StopActs(ps),
                           !.pc = IF StopActs(ps) THEN "term" ELSE "done",
                           !.result = IF StopActs(ps) THEN "running"
                                      ELSE "returned"]]
    /\ UNCHANGED << hostVars, callerVars, fields, runRpc, children, hooks >>

\* stop, self.__ps.terminate() on the handle as it is now.
ThreadStopTerminate(t) ==
    /\ thr[t].pc = "term"
    /\ IF ps = None
       THEN /\ thr' = [thr EXCEPT ![t] =
                         [@ EXCEPT !.pc = "done", !.result = "raised"]]
            /\ UNCHANGED children
       ELSE \E gone \in (IF children[ps].alive THEN {FALSE}
                         ELSE {FALSE, TRUE}) :
              /\ children' = [children EXCEPT ![ps].terms = @ + 1]
              /\ thr' = [thr EXCEPT ![t].pc = IF gone THEN "clear"
                                              ELSE "wait"]
    /\ UNCHANGED << hostVars, callerVars, fields, runRpc, hooks >>

\* stop, self.__ps.wait() on the handle as it is now: it returns (or
\* raises NoSuchProcess, which is caught) once that child has exited.
ThreadStopWait(t) ==
    /\ thr[t].pc = "wait"
    /\ IF ps = None
       THEN thr' = [thr EXCEPT ![t] =
                      [@ EXCEPT !.pc = "done", !.result = "raised"]]
       ELSE /\ ~children[ps].alive
            /\ thr' = [thr EXCEPT ![t].pc = "clear"]
    /\ UNCHANGED << hostVars, callerVars, fields, runRpc, children, hooks >>

\* stop, self.__ps = None
ThreadStopClearHandle(t) ==
    /\ thr[t].pc = "clear"
    /\ ps' = None
    /\ thr' = [thr EXCEPT ![t].pc = "clearport"]
    /\ UNCHANGED << hostVars, callerVars, port, rpcport, pubkey, runRpc,
                    children, hooks >>

\* stop, self.rpcport = None, and the return.
ThreadStopClearPort(t) ==
    /\ thr[t].pc = "clearport"
    /\ rpcport' = None
    /\ thr' = [thr EXCEPT ![t] =
                 [@ EXCEPT !.pc = "done", !.result = "returned"]]
    /\ UNCHANGED << hostVars, callerVars, port, ps, pubkey, runRpc,
                    children, hooks >>

DoThreadStartCheck ==
    \E t \in Threads, rpc \in BOOLEAN : ThreadStartCheck(t, rpc)
DoThreadStartLaunch ==
    \E t \in Threads, ok \in BOOLEAN :
      \E p1 \in Ports, p2 \in (IF thr[t].rpc THEN Ports ELSE {1}) :
        ThreadStartLaunch(t, p1, p2, ok)
DoThreadStartStore == \E t \in Threads : ThreadStartStore(t)
DoThreadStartPoll == \E t \in Threads : ThreadStartPoll(t)
DoThreadStopCheck == \E t \in Threads : ThreadStopCheck(t)
DoThreadStopTerminate == \E t \in Threads : ThreadStopTerminate(t)
DoThreadStopWait == \E t \in Threads : ThreadStopWait(t)
DoThreadStopClearHandle == \E t \in Threads : ThreadStopClearHandle(t)
DoThreadStopClearPort == \E t \in Threads : ThreadStopClearPort(t)

ThreadNext ==
    \/ ThreadConstruct
    \/ DoThreadStartCheck
    \/ DoThreadStartLaunch
    \/ DoThreadStartStore
    \/ DoThreadStartPoll
    \/ DoThreadStopCheck
    \/ DoThreadStopTerminate
    \/ DoThreadStopWait
    \/ DoThreadStopClearHandle
    \/ DoThreadStopClearPort
    \/ DoChildExit
    \/ DoChildOpen
    \/ DoChildClose

\* Two threads, one call each, on one supervisor that is not running.
SpecThreads == Init /\ [][ThreadNext]_vars

\* The version gate over every binary: construction alone.
GateInit ==
    /\ geth \in Binaries
    /\ fs \in DataDirs
    /\ InitFields

GateNext == DoConstruct

SpecGate == GateInit /\ [][GateNext]_vars

\* ------------------------------------------------------------------ claims
\* What the owner of the supervisor can observe: it is between calls, or
\* the interpreter has exited.
BetweenCalls == pc \in {"idle", "done"}

\* C1: whenever start(rpc=true) returns normally after launching a child,
\* rpcport is set and the last inspection of the child's TCP local
\* addresses contained rpcport; it never returns before such an inspection.
C1_RpcStartReturnsOnlyOnceReachable ==
    (call.op = "start" /\ call.rpc /\ call.launched
        /\ call.result = "returned")
    => (rpcport # None /\ call.inspected /\ call.saw /\ pc = "idle")

\* A launching start(rpc=true) has returned after polling more than once.
C1_Witness ==
    /\ call.op = "start" /\ call.rpc /\ call.launched
    /\ call.result = "returned" /\ call.waits = 2 /\ call.saw

\* C2: start called while a process handle is held is a no-op: nothing is
\* launched, no port is allocated, no hook is registered, nothing is
\* polled, and the handle, port and rpcport stay as they are.
C2_StartWhileRunningIsNoOp ==
    [][ (ps # None /\ DoStart)
        => /\ UNCHANGED << ps, port, rpcport, pubkey, children, hooks >>
           /\ pc' = "idle" /\ args' = <<>>
           /\ ~call'.launched /\ ~call'.inspected /\ call'.waits = 0
           /\ call'.result = "returned" ]_vars

\* start has returned without launching while a handle was held.
C2_Witness ==
    /\ call.op = "start" /\ ~call.launched /\ call.result = "returned"
    /\ ps # None /\ pc = "idle"

\* C3: stop() twice in a row never raises, is_running() is false after each
\* of the two calls, and the second call changes nothing.
C3_StopTwice ==
    /\ [](stopsInRow >= 1 /\ pc = "idle"
            => ~is_running /\ call.result = "returned")
    /\ [][ (stopsInRow >= 1 /\ Stop)
           => /\ UNCHANGED << ps, port, rpcport, pubkey, children, hooks >>
              /\ pc' = "idle" /\ ~call'.acted ]_vars

\* stop has been called twice in a row on a supervisor that had launched.
C3_Witness ==
    /\ stopsInRow = 2 /\ call.op = "stop" /\ Len(children) >= 1
    /\ pc = "idle"

\* C4: a stop() that finds a handle ends with the handle and rpcport
\* cleared and without raising, whether the child was terminated or had
\* already disappeared; a start issued afterwards, the launch succeeding,
\* launches a new process.
C4_StopClearsAndAllowsRestart ==
    /\ []((call.op \in {"stop", "hook"} /\ call.acted
             /\ call.result # "running")
            => ps = None /\ rpcport = None /\ call.result = "returned")
    /\ [][ (call.op = "stop" /\ call.acted /\ pc = "idle" /\ DoStart
              /\ call'.result # "raised")
           => /\ call'.launched
              /\ ps' \notin DOMAIN children
              /\ ps' \in DOMAIN children' /\ children'[ps'].alive ]_vars

\* stop found its child already gone, logged it and cleared the handle.
C4_Witness ==
    /\ call.op = "stop" /\ call.acted /\ call.caught
    /\ call.result = "returned" /\ ps = None

\* C5 (as claimed): between calls, rpcport is set iff a process is running
\* and the start call that launched it asked for RPC.
C5_RpcPortIffRpcRun ==
    BetweenCalls => ((rpcport # None) <=> (is_running /\ runRpc))

\* C6 (as claimed): after start(rpc=false) launches a process, rpcport is
\* unset, and start returns after one wait period without inspecting the
\* child's connections.
C6_NoRpcStartDoesNotPoll ==
    (call.op = "start" /\ ~call.rpc /\ call.launched)
    => /\ rpcport = None
       /\ ~call.inspected
       /\ call.result \in {"running", "returned", "interrupted"}
       /\ call.result = "returned" => call.waits = 1

\* Lexicographic order on version triples.
LexLeq(a, b) ==
    \/ a[1] < b[1]
    \/ a[1] = b[1] /\ a[2] < b[2]
    \/ a[1] = b[1] /\ a[2] = b[2] /\ a[3] <= b[3]

\* The version triple the binary reports.
Reported == StrictVersion(ReSearchVersion(geth.output))

\* C7: for every version triple v the binary reports, construction passes
\* the version gate iff 1.4.5 <= v <= 1.5.999 in lexicographic order.
C7_GateIffInRange ==
    (call.op = "init" /\ geth.found /\ ReSearchVersion(geth.output) # <<>>)
    => ((err \notin GateErrors)
          <=> (LexLeq(<<1, 4, 5>>, Reported)
                 /\ LexLeq(Reported, <<1, 5, 999>>)))

\* A binary reporting exactly 1.5.999 has passed the gate.
C7_Witness ==
    /\ call.op = "init" /\ geth.found /\ err \notin GateErrors
    /\ ReSearchVersion(geth.output) # <<>> /\ Reported = <<1, 5, 999>>

\* C8: when the binary is missing, its version does not parse or is out of
\* range, construction raises before any effect on the data directory
\* (nothing created, written or initialised), and no child is ever
\* launched for that supervisor.
C8_GateFailureHasNoEffect ==
    /\ [][ (DoConstruct /\ err' \in GateErrors)
           => /\ fs' = fs /\ ctorLog' = <<>>
              /\ sup' = "failed" /\ call'.result = "raised" ]_vars
    /\ [](sup = "failed"
            => ps = None /\ children = <<>> /\ hooks = 0 /\ pc # "poll")

\* Construction was refused at the gate with the data directory absent.
C8_Witness ==
    /\ sup = "failed" /\ err \in GateErrors /\ fs.dir = "absent"
    /\ call.op = "init"

\* C9: a launching start registers its cleanup hook once the handle is
\* stored and before it polls, so that once the exit hooks have run no
\* child launched by the supervisor is alive.
C9_HookBeforePollingAndNoChildSurvivesExit ==
    /\ pc = "poll" => (is_running /\ hooks = Len(children))
    /\ ~exiting => hooks = Len(children)
    /\ pc = "done" => \A c \in DOMAIN children : ~children[c].alive

\* The exit hooks have run and one of them terminated a child that the
\* owner had not stopped.
C9_Witness ==
    /\ pc = "done" /\ call.op = "hook" /\ Len(children) >= 1
    /\ \E c \in DOMAIN children : children[c].terms = 1

\* C10: over start/stop cycles followed by the exit hooks, each child is
\* sent a terminate request at most once, a teardown that finds no handle
\* is a no-op, and no teardown raises.
C10_TeardownIdempotent ==
    /\ [](/\ \A c \in DOMAIN children : children[c].terms <= 1
          /\ call.op \in {"stop", "hook"} => call.result # "raised")
    /\ [][ (ps = None /\ (Stop \/ RunHook))
           => /\ UNCHANGED << ps, port, rpcport, pubkey, children >>
              /\ pc' = "idle" /\ ~call'.acted ]_vars

\* Two start/stop cycles, then both exit hooks: each child was sent one
\* terminate request and the hooks found nothing to do.
C10_Witness ==
    /\ pc = "done" /\ Len(children) = 2 /\ hooks = 0
    /\ \A c \in DOMAIN children : children[c].terms = 1
    /\ call.op = "hook" /\ ~call.acted

\* C11 (as claimed): port is set iff a child has been launched by this
\* supervisor at least once.
C11_PortIffLaunchedOnce ==
    (port # None) <=> (children # <<>>)

\* The binary passes the version gate, stated on the triple it reports.
PassesGate ==
    /\ geth.found /\ ReSearchVersion(geth.output) # <<>>
    /\ LexLeq(<<1, 4, 5>>, Reported) /\ LexLeq(Reported, <<1, 5, 999>>)

\* How often an effect occurs in a log of effects.
CountIn(log, e) == Cardinality({ i \in DOMAIN log : log[i] = e })

\* The place of an effect in a log of effects (0 when it is not there).
PlaceIn(log, e) ==
    IF \E i \in DOMAIN log : log[i] = e
    THEN CHOOSE i \in DOMAIN log : log[i] = e ELSE 0

\* C12: every construction that passes the version gate and the directory
\* check runs the genesis init exactly once, whether or not the directory
\* existed or was initialised before; a non-zero exit of init aborts the
\* construction, and a zero exit leaves the golem chain state.
C12_InitOnEveryConstruction ==
    [][ \A nodes \in NodeSets, rc \in {0, 1} :
          (Construct(nodes, rc) /\ PassesGate /\ fs.dir # "file")
          => /\ CountIn(ctorLog', "init") = 1
             /\ rc # 0 => (sup' = "failed" /\ err' = "GenesisInitFailed"
                             /\ call'.result = "raised")
             /\ rc = 0 => (sup' = "ok" /\ err' = "none"
                             /\ fs'.genesis = "golem") ]_vars

\* A second construction on a directory the first one initialised and
\* wrote static nodes to: it ran init again and succeeded.
C12_Witness ==
    /\ sup = "ok" /\ call.op = "init" /\ ctorLog = <<"init">>
    /\ fs.nodesFile \in NodeSets \ {<<>>} /\ fs.genesis = "golem"

\* The fixed flags of the argument vector, for peer port pt.
FixedFlags(pt) ==
    << "geth", "--datadir", "datadir", "--networkid", "9",
       "--port", ToString(pt), "--nodiscover", "--ipcdisable",
       "--gasprice", "0", "--verbosity", "3" >>

\* C13: the argument vector of a launching start is the fixed flags,
\* then the RPC flags with rpcport iff rpc was asked for, then the node-key
\* flag iff a key was given, then the mining flags iff mining was asked
\* for, whatever the supervisor held before; an explicit non-zero port is
\* the peer port, otherwise the allocated one is.
C13_ArgumentVector ==
    [][ (ps = None /\ ps' # None) =>
        \A rpc \in BOOLEAN, mining \in BOOLEAN, key \in { <<>>, FaucetKey },
           portArg \in {None} \cup ExplicitPorts,
           p1 \in Ports, p2 \in Ports :
          Start(rpc, mining, key, portArg, p1, p2, TRUE)
          => /\ port' = (IF portArg # None THEN portArg ELSE p1)
             /\ rpc => rpcport' = p2
             /\ args' =
                  FixedFlags(port')
                  \o (IF rpc THEN << "--rpc", "--rpcport", ToString(p2) >>
                      ELSE <<>>)
                  \o (IF key = FaucetKey THEN << "--nodekeyhex", "0aff" >>
                      ELSE <<>>)
                  \o (IF mining
                      THEN << "--etherbase", "FaucetAddrHex", "js",
                              "mine_pending_transactions.js" >>
                      ELSE <<>>) ]_vars

\* A start with an explicit port, RPC, a node key and mining has launched
\* from a supervisor that held another port before.
C13_Witness ==
    /\ pc = "poll" /\ call.launched /\ Len(args) = 22
    /\ port = MaxPort /\ Len(children) = 2

\* C14: a construction that passes the gate and the directory check writes
\* the static-node file iff the node set is not empty, replacing what the
\* file held, after the directory is made and before the genesis init; with
\* an empty set the file is left as it was.  No other construction writes
\* it.
C14_StaticNodesWrittenIffGiven ==
    [][ \A nodes \in NodeSets, rc \in {0, 1} :
          Construct(nodes, rc)
          => IF PassesGate /\ fs.dir # "file"
             THEN /\ (CountIn(ctorLog', "save") = 1) <=> (nodes # <<>>)
                  /\ CountIn(ctorLog', "save") <= 1
                  /\ nodes # <<>>
                       => /\ fs'.nodesFile = nodes
                          /\ PlaceIn(ctorLog', "save")
                               < PlaceIn(ctorLog', "init")
                          /\ PlaceIn(ctorLog', "makedirs")
                               < PlaceIn(ctorLog', "save")
                  /\ nodes = <<>> => fs'.nodesFile = fs.nodesFile
             ELSE /\ CountIn(ctorLog', "save") = 0
                  /\ fs'.nodesFile = fs.nodesFile ]_vars

\* A construction has replaced an older static-node file.
C14_Witness ==
    /\ call.op = "init" /\ ctorLog = <<"save", "init">>
    /\ fs.nodesFile \in NodeSets \ {<<>>}

\* C16: stop requests termination before it waits, and clears the handle
\* only once the child has exited or was found gone: when stop has
\* returned, is_running() is false and no child of the supervisor is alive.
C16_StopReturnsAfterChildExit ==
    /\ pc = "wait" => (ps # None /\ children[ps].terms >= 1)
    /\ (call.op \in {"stop", "hook"} /\ call.result = "returned")
       => (~is_running /\ \A c \in DOMAIN children : ~children[c].alive)

\* stop has terminated a live child, waited for its exit and returned.
C16_Witness ==
    /\ call.op = "stop" /\ call.acted /\ ~call.caught
    /\ call.result = "returned" /\ children[1].terms = 1

\* C17: under single-threaded use at most one child of the supervisor is
\* alive, and an alive child is the one the handle refers to.
C17_NoOrphanChild ==
    \A c \in DOMAIN children : children[c].alive => ps = c

\* A second child is alive and referenced after the first was stopped.
C17_Witness ==
    /\ Len(children) = 2 /\ ps = 2
    /\ children[2].alive /\ ~children[1].alive

\* C18 (as claimed): a start whose launch raises leaves the supervisor as
\* it was: not running, port and rpcport unchanged, no hook registered.
C18_FailedLaunchChangesNothing ==
    [][ (pc = "idle" /\ call'.result = "raised" /\ DoStart)
        => (UNCHANGED << ps, port, rpcport, hooks >> /\ ps' = None) ]_vars

\* C19: is_running() becomes true when a launching start stores the handle
\* and false when a stop (or exit hook) clears it, and at no other step: it
\* stays true when the child exits on its own.
C19_RunningFollowsHandleOnly ==
    /\ []((call.op = "start" /\ call.launched) => is_running)
    /\ []((call.op \in {"stop", "hook"} /\ call.result = "returned")
            => ~is_running)
    /\ [][ (is_running' # is_running)
           => IF is_running'
              THEN call'.op = "start" /\ call'.launched
                   /\ call'.result = "running"
              ELSE call'.op \in {"stop", "hook"} /\ call'.acted
                   /\ call'.result = "returned" ]_vars

\* The child has exited on its own after start returned; the supervisor
\* still reports running.
C19_Witness ==
    /\ is_running /\ ~children[ps].alive /\ pc = "idle"
    /\ call.op = "start" /\ call.result = "returned"

\* A launching start(rpc=true) is in its loop.
PollingRpc == pc = "poll" /\ call.rpc

\* The child start polls has rpcport among its local TCP ports.
RpcPortOpen == ps # None /\ rpcport \in children[ps].laddr

\* C15: if from some time on the child has rpcport open whenever
\* start(rpc=true) polls, start is always left in the end (it returns,
\* unless it is interrupted); while the child does not have rpcport open
\* start does not return, and its loop is left in no other way than by
\* seeing the port or by an exception.
C15_PollingEndsIffPortOpens ==
    /\ (<>[](PollingRpc => RpcPortOpen)) => []<>(~PollingRpc)
    /\ [][ (PollingRpc /\ ~PollingRpc')
           => \/ call'.result = "returned" /\ RpcPortOpen
              \/ call'.result = "interrupted"
              \/ call'.result = "raised" /\ ~children[ps].alive ]_vars

\* start(rpc=true) has polled a live child more than once without seeing
\* rpcport, and is still in its loop.
C15_Witness ==
    /\ PollingRpc /\ call.waits = 2 /\ call.inspected /\ ~call.saw
    /\ children[ps].alive /\ ~RpcPortOpen

\* A child that is alive and that neither the handle nor a start about to
\* store its handle refers to.
Orphan(c) ==
    /\ children[c].alive /\ ps # c
    /\ ~\E t \in Threads : thr[t].pc = "spawned" /\ thr[t].handle = c

\* Both threads called start and both found no handle at the test.
BothStartsPassedCheck ==
    \A t \in Threads : thr[t].op = "start" /\ ~thr[t].held

\* C20 as stated: whatever two threads call, at most one child is launched
\* and no child is left alive without the handle referring to it.
C20_ConcurrentCallsOneChildNoOrphan ==
    /\ Len(children) <= 1
    /\ \A c \in DOMAIN children : ~Orphan(c)

\* C20, amended: a start that finds the handle held launches nothing; every
\* child was launched by a start that found no handle, one child at most
\* for each; and unless both threads called start and both found no handle,
\* at most one child is launched and none is left alive without the handle
\* referring to it (so a stop during the loop of a start leaves no orphan).
C20_OneChildUnlessBothStartsPassCheck ==
    /\ \A t \in Threads :
         (thr[t].op = "start" /\ thr[t].held) => ~thr[t].launched
    /\ Len(children) =
         Cardinality({ t \in Threads : thr[t].launched /\ ~thr[t].held })
    /\ ~BothStartsPassedCheck
         => /\ Len(children) <= 1
            /\ \A c \in DOMAIN children : ~Orphan(c)

\* One thread's stop has cleared the handle of the child another thread's
\* start launched, while that start is still in its loop.
C20_Witness ==
    \E t \in Threads, u \in Threads :
      /\ thr[t].op = "stop" /\ thr[t].acted /\ thr[t].pc = "done"
      /\ thr[u].op = "start" /\ thr[u].launched /\ thr[u].pc = "poll"
      /\ ps = None /\ Len(children) = 1 /\ ~children[1].alive

====
